---- MODULE Spec2Model ----
(***************************************************************************)
(* The command line interface of ibp_neurips19 (cli.py): the commands      *)
(* basic, experiment and pgd, the experiment grids they enumerate, the     *)
(* checkpoint paths they derive and the checkpoint files pgd rewrites.     *)
(*                                                                         *)
(* A float is a pair <<numerator, denominator>>; a decimal literal has the *)
(* smallest power of ten as denominator, so two literals are equal exactly *)
(* when their pairs are.  A Python None, and an absent option, is the      *)
(* empty sequence; a present integer option k is <<k>>.  A checkpoint (a   *)
(* Python dict) is a function from key strings to values.                  *)
(***************************************************************************)
EXTENDS Integers, Sequences, FiniteSets, TLC

VARIABLES
    cmd,          \* the command invoked: "basic", "experiment" or "pgd"
    opts,         \* the command line options as given
    status,       \* "start", "running", "done", "usage_error", "failed"
    i,            \* the enumerate() counter of the experiment being processed
    files,        \* the checkpoint files on disk: path -> checkpoint dict
    initial,      \* the files as they were when the command started
    session,      \* how many pgd runs the files have seen, this one included
    printed,      \* what print() has listed: the number and the experiment
    checkpoint_file,  \* pgd's local variable of that name, "" before the loop
    loads,        \* the torch.load calls that returned
    saves,        \* the torch.save calls
    attackCalls,  \* the compute_robustness calls, with what they returned
    trainCalls,   \* the train_classifier calls
    error         \* the exception that ended the command, "" when none

vars == <<cmd, opts, status, i, files, initial, session, printed,
          checkpoint_file, loads, saves, attackCalls, trainCalls, error>>

(***************************************************************************)
(* Bounds of the model.                                                    *)
(***************************************************************************)
MaxIndex == 81
MaxPriorRuns == 1

None == <<>>

(***************************************************************************)
(* Floats and their formatting in f-strings.                               *)
(***************************************************************************)
F(n, d) == <<n, d>>

Digit == <<"0", "1", "2", "3", "4", "5", "6", "7", "8", "9">>

RECURSIVE IntStr(_)
IntStr(n) == IF n < 10 THEN Digit[n + 1]
             ELSE IntStr(n \div 10) \o Digit[(n % 10) + 1]

RECURSIVE NumDigits(_)
NumDigits(n) == IF n < 10 THEN 1 ELSE 1 + NumDigits(n \div 10)

RECURSIVE Zeros(_)
Zeros(k) == IF k <= 0 THEN "" ELSE "0" \o Zeros(k - 1)

\* str() of a non-negative decimal below 1 (or of the int n when d = 1):
\* "0." then the digits of n, left-padded with zeros to the places of d.
FloatStr(x) ==
    IF x[2] = 1 THEN IntStr(x[1])
    ELSE "0." \o Zeros(NumDigits(x[2]) - 1 - NumDigits(x[1])) \o IntStr(x[1])

\* str.lower() on the dataset names
Lower(s) == CASE s = "MNIST" -> "mnist"
              [] s = "CIFAR10" -> "cifar10"
              [] s = "SVHN" -> "svhn"
              [] s = "CIFAR100" -> "cifar100"
              [] OTHER -> s

\* itertools.product of four and of five lists, last list varying fastest
Product4(A, B, C, D) ==
    [n \in 1..(Len(A) * Len(B) * Len(C) * Len(D)) |->
        LET k == n - 1 IN
        << A[(k \div (Len(B) * Len(C) * Len(D))) + 1],
           B[((k \div (Len(C) * Len(D))) % Len(B)) + 1],
           C[((k \div Len(D)) % Len(C)) + 1],
           D[(k % Len(D)) + 1] >>]

Product5(A, B, C, D, E) ==
    [n \in 1..(Len(A) * Len(B) * Len(C) * Len(D) * Len(E)) |->
        LET k == n - 1 IN
        << A[(k \div (Len(B) * Len(C) * Len(D) * Len(E))) + 1],
           B[((k \div (Len(C) * Len(D) * Len(E))) % Len(B)) + 1],
           C[((k \div (Len(D) * Len(E))) % Len(C)) + 1],
           D[((k \div Len(E)) % Len(D)) + 1],
           E[(k % Len(E)) + 1] >>]

(***************************************************************************)
(* The experiment command's grid and paths.                                *)
(***************************************************************************)
ExpDatasets == <<"MNIST", "CIFAR10", "SVHN", "CIFAR100">>
ExpEpsilons == <<F(1, 1000), F(1, 100), F(3, 100), F(1, 10), F(2, 10),
                 F(3, 10), F(4, 10)>>
ExpLearningRates == <<F(1, 10), F(1, 100), F(1, 1000)>>
ExpModels == <<"small_cnn", "medium_cnn", "large_cnn">>

\* the tuples (dataset, epsilon, learning_rate, model), in loop order
ExperimentGrid ==
    Product4(ExpDatasets, ExpEpsilons, ExpLearningRates, ExpModels)

\* Directory with the learning rate left out of the path
DirectoryNoRate(dataset, model, epsilon, learning_rate) ==
    dataset \o "-" \o model \o "-" \o FloatStr(epsilon)

Directory(dataset, model, epsilon, learning_rate) ==
    dataset \o "-" \o model \o "-" \o FloatStr(epsilon)
            \o "/" \o FloatStr(learning_rate)

(***************************************************************************)
(* The pgd command's experiments and paths.                                *)
(***************************************************************************)
PgdDatasets == <<"MNIST", "CIFAR10">>
PgdEpsilons == <<F(1, 100), F(3, 100), F(1, 10), F(2, 10)>>
PgdModelSize == <<"small", "medium">>
PgdLearningRates == <<F(0, 1), F(1, 10), F(1, 100), F(1, 1000)>>
PgdTestEpsilons == <<F(2, 255), F(1, 10), F(2, 10), F(3, 10)>>

\* Yielded with 'and' for the 'or' of the CIFAR10 test
YieldedAnd(t) ==
    IF t[1] = "CIFAR10"
    THEN ~(t[5] # F(2, 255) /\ t[2] # F(1, 100))
    ELSE ~(t[5] = F(2, 255) \/ t[2] = F(1, 100))

\* the generator's filter on (dataset, epsilon, model, learning_rate,
\* test_epsilon): TRUE when the tuple is yielded
Yielded(t) ==
    IF t[1] = "CIFAR10"
    THEN ~(t[5] # F(2, 255) \/ t[2] # F(1, 100))
    ELSE ~(t[5] = F(2, 255) \/ t[2] = F(1, 100))

Experiments ==
    SelectSeq(Product5(PgdDatasets, PgdEpsilons, PgdModelSize,
                       PgdLearningRates, PgdTestEpsilons), Yielded)

\* CheckpointFile without the '_cnn' suffix of the model
CheckpointFileNoCnn(dataset, epsilon, model, learning_rate) ==
    IF learning_rate = F(0, 1)
    THEN "dm_torch/" \o Lower(dataset) \o "-" \o model \o "-"
                     \o FloatStr(epsilon) \o ".pth"
    ELSE dataset \o "-" \o model \o "-" \o FloatStr(epsilon)
                 \o "/" \o FloatStr(learning_rate) \o "/checkpoint.pth"

\* CheckpointFile without the learning rate's directory
CheckpointFileNoRate(dataset, epsilon, model, learning_rate) ==
    IF learning_rate = F(0, 1)
    THEN "dm_torch/" \o Lower(dataset) \o "-" \o model \o "-"
                     \o FloatStr(epsilon) \o ".pth"
    ELSE dataset \o "-" \o model \o "_cnn-" \o FloatStr(epsilon)
                 \o "/checkpoint.pth"

CheckpointFile(dataset, epsilon, model, learning_rate) ==
    IF learning_rate = F(0, 1)
    THEN "dm_torch/" \o Lower(dataset) \o "-" \o model \o "-"
                     \o FloatStr(epsilon) \o ".pth"
    ELSE dataset \o "-" \o model \o "_cnn-" \o FloatStr(epsilon)
                 \o "/" \o FloatStr(learning_rate) \o "/checkpoint.pth"

FileOf(e) == CheckpointFile(e[1], e[2], e[3], e[4])

\* the network pgd builds for an experiment: models.<model>_cnn fitted to
\* the dataset
NetOf(e) == <<e[3] \o "_cnn", e[1]>>

NumExperiments == Len(Experiments)

PgdPaths == {FileOf(Experiments[k]) : k \in 1..NumExperiments}

DmTorchPaths ==
    {FileOf(Experiments[k]) :
        k \in {j \in 1..NumExperiments : Experiments[j][4] = F(0, 1)}}

(***************************************************************************)
(* The collaborators: the training loop, torch.load / load_state_dict, and *)
(* the robustness computation.                                             *)
(***************************************************************************)
\* the checkpoint the training loop persists for a network
TrainedCheckpoint(net) ==
    ("state_dict" :> net) @@ ("best_acc1" :> "best")

\* train_classifier(**kwargs): with evaluate_only it only validates,
\* otherwise it trains and persists the checkpoint at kwargs.checkpoint
TrainClassifier(fs, kwargs) ==
    IF kwargs.evaluate_only THEN fs
    ELSE (kwargs.checkpoint :>
             TrainedCheckpoint(<<kwargs.model, kwargs.dataset>>)) @@ fs

\* net.load_state_dict(state_dict) accepts the weights of the same network
LoadStateDictOk(net, state_dict) == state_dict = net

\* what compute_robustness returns for the call made for experiment k of
\* pgd run r: three opaque values, one per statistic, distinct per call
ComputeRobustness(r, k) ==
    [robustness |-> <<"robustness", r, k>>,
     fooling_rate |-> <<"fooling_rate", r, k>>,
     sorted_errors |-> <<"sorted_errors", r, k>>]

(***************************************************************************)
(* pgd's defaults and the record it appends.                               *)
(***************************************************************************)
DefaultSubset == None
DefaultRestarts == 1
DefaultSeed == None

\* PgdRecord that stores the training epsilon
PgdRecordTrainEps(seed, subset, restarts, epsilon, test_epsilon, results) ==
    [seed |-> seed,
     subset |-> subset,
     restarts |-> restarts,
     epsilon |-> epsilon,
     robustness |-> results.robustness,
     fooling_rate |-> results.fooling_rate,
     sorted_errors |-> results.sorted_errors]

PgdRecord(seed, subset, restarts, epsilon, test_epsilon, results) ==
    [seed |-> seed,
     subset |-> subset,
     restarts |-> restarts,
     epsilon |-> test_epsilon,
     robustness |-> results.robustness,
     fooling_rate |-> results.fooling_rate,
     sorted_errors |-> results.sorted_errors]

\* the list under 'PGD', empty when the key is absent
PgdOf(checkpoint) ==
    IF "PGD" \in DOMAIN checkpoint THEN checkpoint["PGD"] ELSE <<>>

\* WithRecord that starts a new list on every run
WithRecordOverwrite(checkpoint, record) ==
    ("PGD" :> <<record>>) @@ checkpoint

\* if 'PGD' not in checkpoint: checkpoint['PGD'] = []
\* checkpoint['PGD'].append(record)
WithRecord(checkpoint, record) ==
    IF "PGD" \notin DOMAIN checkpoint
    THEN ("PGD" :> <<record>>) @@ checkpoint
    ELSE [checkpoint EXCEPT !["PGD"] = Append(@, record)]

\* the loop's selection: the first experiment number >= from that the loop
\* body runs for (every number without an index, only the index with one);
\* n, the length of the list, when there is none
NextSelected(from, index, n) ==
    IF index = None THEN (IF from < n THEN from ELSE n)
    ELSE IF from <= index[1] /\ index[1] < n THEN index[1] ELSE n

(***************************************************************************)
(* The files a command can find on disk.                                   *)
(***************************************************************************)
\* the numbers (from 1) of the experiments whose checkpoint file is p
UsersOf(p) ==
    SelectSeq([k \in 1..NumExperiments |-> k],
              LAMBDA k : FileOf(Experiments[k]) = p)

\* the records one complete pgd run r appends to file p
RunRecords(p, r) ==
    [j \in 1..Len(UsersOf(p)) |->
        LET k == UsersOf(p)[j] IN
        PgdRecord(DefaultSeed, DefaultSubset, DefaultRestarts,
                  Experiments[k][2], Experiments[k][5],
                  ComputeRobustness(r, k - 1))]

RECURSIVE PriorRecords(_, _)
PriorRecords(p, r) ==
    IF r = 0 THEN <<>> ELSE PriorRecords(p, r - 1) \o RunRecords(p, r)

\* file p after `prior` complete pgd runs on a trained checkpoint
HealthyFile(p, prior) ==
    LET net == NetOf(Experiments[UsersOf(p)[1]])
    IN  IF prior = 0 THEN TrainedCheckpoint(net)
        ELSE ("PGD" :> PriorRecords(p, prior)) @@ TrainedCheckpoint(net)

\* a file that holds the bare weights, with no 'state_dict' wrapper
BareFile == ("conv1.weight" :> "tensor") @@ ("conv1.bias" :> "tensor")

\* a file whose weights belong to another network
MismatchFile == TrainedCheckpoint(<<"large_cnn", "SVHN">>)

Faults ==
    {<<"none">>} \cup {<<"absent", p>> : p \in PgdPaths}
                 \cup {<<"bare", p>> : p \in DmTorchPaths}
                 \cup {<<"mismatch", p>> : p \in DmTorchPaths}

InitialFiles(prior, fault) ==
    [p \in PgdPaths \ (IF fault[1] = "absent" THEN {fault[2]} ELSE {}) |->
        IF fault[1] = "bare" /\ fault[2] = p THEN BareFile
        ELSE IF fault[1] = "mismatch" /\ fault[2] = p THEN MismatchFile
        ELSE HealthyFile(p, prior)]

(***************************************************************************)
(* The command line.                                                       *)
(***************************************************************************)
Indices == {None} \cup {<<k>> : k \in (-1)..MaxIndex}

FloatOptions == {F(-1, 10), F(0, 1), F(1, 10)}

BasicOptions ==
    [evaluate_only : BOOLEAN, learning_rate : FloatOptions,
     momentum : FloatOptions, weight_decay : FloatOptions,
     epsilon : FloatOptions]

LoopOptions == [run : BOOLEAN, index : Indices]

Init ==
    /\ cmd \in {"basic", "experiment", "pgd"}
    /\ \E prior \in 0..MaxPriorRuns :
         \E fault \in (IF cmd = "pgd" THEN Faults ELSE {<<"none">>}) :
            /\ files = InitialFiles(prior, fault)
            /\ session = prior + 1
    /\ opts \in (IF cmd = "basic" THEN BasicOptions ELSE LoopOptions)
    /\ status = "start"
    /\ i = 0
    /\ initial = files
    /\ printed = <<>>
    /\ checkpoint_file = ""
    /\ loads = <<>>
    /\ saves = <<>>
    /\ attackCalls = <<>>
    /\ trainCalls = <<>>
    /\ error = ""

\* click.FloatRange(min=0) on a parsed value
BelowMin(x) == x[1] < 0

\* the options of basic that click rejects: learning-rate, momentum and
\* weight-decay are FloatRange(min=0), epsilon is FloatRange()
BasicRejects(o) ==
    \/ BelowMin(o.learning_rate)
    \/ BelowMin(o.momentum)
    \/ BelowMin(o.weight_decay)

\* basic from the command line: the given options, the rest at defaults
BasicKwargs(o) ==
    [evaluate_only |-> o.evaluate_only, dataset |-> "MNIST",
     model |-> "small_cnn", learning_rate |-> o.learning_rate,
     momentum |-> o.momentum, weight_decay |-> o.weight_decay,
     epsilon |-> o.epsilon, log_dir |-> "logs",
     checkpoint |-> "checkpoint.pth"]

\* ctx.invoke(basic, ...) from experiment: the given arguments, the rest
\* at the options' defaults
InvokeKwargs(dataset, model, epsilon, learning_rate, directory) ==
    [evaluate_only |-> FALSE, dataset |-> dataset, model |-> model,
     learning_rate |-> learning_rate, momentum |-> F(9, 10),
     weight_decay |-> F(1, 10000), epsilon |-> epsilon,
     log_dir |-> directory,
     checkpoint |-> directory \o "/checkpoint.pth"]

\* what experiment's loop body passes to basic for the grid tuple
\* t = (dataset, epsilon, learning_rate, model)
ExperimentKwargs(t) ==
    InvokeKwargs(t[1], t[4], t[2], t[3], Directory(t[1], t[4], t[2], t[3]))

Basic ==
    /\ cmd = "basic"
    /\ status = "start"
    /\ IF BasicRejects(opts)
       THEN /\ status' = "usage_error"
            /\ error' = "UsageError"
            /\ UNCHANGED <<files, trainCalls>>
       ELSE /\ trainCalls' = Append(trainCalls, BasicKwargs(opts))
            /\ files' = TrainClassifier(files, BasicKwargs(opts))
            /\ status' = "done"
            /\ error' = ""
    /\ UNCHANGED <<cmd, opts, i, initial, session, printed, checkpoint_file,
                   loads, saves, attackCalls>>

ListLength == IF cmd = "pgd" THEN NumExperiments ELSE Len(ExperimentGrid)

\* click.IntRange(0) on --index, then the loop's first selected experiment
Start ==
    /\ cmd \in {"experiment", "pgd"}
    /\ status = "start"
    /\ IF opts.index # None /\ opts.index[1] < 0
       THEN /\ status' = "usage_error"
            /\ error' = "UsageError"
            /\ i' = i
       ELSE /\ status' = "running"
            /\ error' = ""
            /\ i' = NextSelected(0, opts.index, ListLength)
    /\ UNCHANGED <<cmd, opts, files, initial, session, printed,
                   checkpoint_file, loads, saves, attackCalls, trainCalls>>

\* the loop has no experiment left
LoopEnd ==
    /\ status = "running"
    /\ i = ListLength
    /\ status' = "done"
    /\ UNCHANGED <<cmd, opts, i, files, initial, session, printed,
                   checkpoint_file, loads, saves, attackCalls, trainCalls,
                   error>>

\* one pass of experiment's loop body
ExperimentStep ==
    /\ cmd = "experiment"
    /\ status = "running"
    /\ i < Len(ExperimentGrid)
    /\ LET t == ExperimentGrid[i + 1]
           kwargs == ExperimentKwargs(t)
       IN  /\ printed' = Append(printed, [i |-> i, exp |-> t])
           /\ IF opts.run
              THEN /\ trainCalls' = Append(trainCalls, kwargs)
                   /\ files' = TrainClassifier(files, kwargs)
              ELSE UNCHANGED <<trainCalls, files>>
    /\ i' = NextSelected(i + 1, opts.index, Len(ExperimentGrid))
    /\ UNCHANGED <<cmd, opts, status, initial, session, checkpoint_file,
                   loads, saves, attackCalls, error>>

\* what pgd passes to compute_robustness for experiment e, and what came back
AttackCall(k, e, results) ==
    [i |-> k, net |-> NetOf(e), dataset |-> e[1], attack_name |-> "PGD",
     restarts |-> DefaultRestarts, subset |-> DefaultSubset,
     subset_seed |-> DefaultSeed, epsilon |-> e[5], results |-> results]

\* PgdShow that reads the checkpoint although nothing is run
PgdShowLoads ==
    /\ cmd = "pgd"
    /\ status = "running"
    /\ i < NumExperiments
    /\ ~opts.run
    /\ FileOf(Experiments[i + 1]) \in DOMAIN files
    /\ checkpoint_file' = FileOf(Experiments[i + 1])
    /\ printed' = Append(printed, [i |-> i, exp |-> Experiments[i + 1]])
    /\ loads' = Append(loads,
          [i |-> i, file |-> FileOf(Experiments[i + 1]),
           checkpoint |-> files[FileOf(Experiments[i + 1])]])
    /\ i' = NextSelected(i + 1, opts.index, NumExperiments)
    /\ UNCHANGED <<cmd, opts, status, files, initial, session, saves,
                   attackCalls, trainCalls, error>>

\* one pass of pgd's loop body in show mode
PgdShow ==
    /\ cmd = "pgd"
    /\ status = "running"
    /\ i < NumExperiments
    /\ ~opts.run
    /\ checkpoint_file' = FileOf(Experiments[i + 1])
    /\ printed' = Append(printed, [i |-> i, exp |-> Experiments[i + 1]])
    /\ i' = NextSelected(i + 1, opts.index, NumExperiments)
    /\ UNCHANGED <<cmd, opts, status, files, initial, session, loads, saves,
                   attackCalls, trainCalls, error>>

\* one pass of pgd's loop body in run mode that reaches torch.save
PgdRun ==
    /\ cmd = "pgd"
    /\ status = "running"
    /\ i < NumExperiments
    /\ opts.run
    /\ LET e == Experiments[i + 1]
           file == FileOf(e)
       IN  /\ file \in DOMAIN files
           /\ checkpoint_file' = file
           /\ LET checkpoint == files[file]
                  results == ComputeRobustness(session, i)
                  record == PgdRecord(DefaultSeed, DefaultSubset,
                                      DefaultRestarts, e[2], e[5], results)
                  saved == WithRecord(checkpoint, record)
              IN  /\ "state_dict" \in DOMAIN checkpoint
                  /\ LoadStateDictOk(NetOf(e), checkpoint["state_dict"])
                  /\ printed' = Append(printed, [i |-> i, exp |-> e])
                  /\ loads' = Append(loads,
                        [i |-> i, file |-> file, checkpoint |-> checkpoint])
                  /\ attackCalls' =
                        Append(attackCalls, AttackCall(i, e, results))
                  /\ saves' = Append(saves,
                        [i |-> i, file |-> file, checkpoint |-> saved])
                  /\ files' = [files EXCEPT ![file] = saved]
    /\ i' = NextSelected(i + 1, opts.index, NumExperiments)
    /\ UNCHANGED <<cmd, opts, status, initial, session, trainCalls, error>>

\* PgdFail for a loop body that writes the file before it computes the
\* robustness: a failing computation leaves the new, empty list behind
PgdFailPartial ==
    /\ cmd = "pgd"
    /\ status = "running"
    /\ i < NumExperiments
    /\ opts.run
    /\ LET e == Experiments[i + 1]
           file == FileOf(e)
       IN  /\ file \in DOMAIN files
           /\ "state_dict" \in DOMAIN files[file]
           /\ LoadStateDictOk(NetOf(e), files[file]["state_dict"])
           /\ loads' = Append(loads,
                 [i |-> i, file |-> file, checkpoint |-> files[file]])
           /\ attackCalls' = Append(attackCalls, AttackCall(i, e, None))
           /\ files' = [files EXCEPT ![file] =
                           ("PGD" :> PgdOf(files[file])) @@ files[file]]
           /\ checkpoint_file' = file
           /\ printed' = Append(printed, [i |-> i, exp |-> e])
    /\ error' = "AttackError"
    /\ status' = "failed"
    /\ UNCHANGED <<cmd, opts, i, initial, session, saves, trainCalls>>

\* one pass of pgd's loop body in run mode that raises: torch.load on a
\* missing file, checkpoint['state_dict'] on a dict without the key,
\* load_state_dict on other weights, or compute_robustness itself
PgdFail ==
    /\ cmd = "pgd"
    /\ status = "running"
    /\ i < NumExperiments
    /\ opts.run
    /\ LET e == Experiments[i + 1]
           file == FileOf(e)
           loaded == [i |-> i, file |-> file, checkpoint |-> files[file]]
       IN  \/ /\ file \notin DOMAIN files
              /\ error' = "FileNotFoundError"
              /\ UNCHANGED <<loads, attackCalls>>
           \/ /\ file \in DOMAIN files
              /\ "state_dict" \notin DOMAIN files[file]
              /\ error' = "KeyError"
              /\ loads' = Append(loads, loaded)
              /\ UNCHANGED attackCalls
           \/ /\ file \in DOMAIN files
              /\ "state_dict" \in DOMAIN files[file]
              /\ ~LoadStateDictOk(NetOf(e),
                                  files[file]["state_dict"])
              /\ error' = "RuntimeError"
              /\ loads' = Append(loads, loaded)
              /\ UNCHANGED attackCalls
           \/ /\ file \in DOMAIN files
              /\ "state_dict" \in DOMAIN files[file]
              /\ LoadStateDictOk(NetOf(e),
                                 files[file]["state_dict"])
              /\ error' = "AttackError"
              /\ loads' = Append(loads, loaded)
              /\ attackCalls' = Append(attackCalls, AttackCall(i, e, None))
    /\ checkpoint_file' = FileOf(Experiments[i + 1])
    /\ printed' = Append(printed, [i |-> i, exp |-> Experiments[i + 1]])
    /\ status' = "failed"
    /\ UNCHANGED <<cmd, opts, i, files, initial, session, saves, trainCalls>>

Next ==
    \/ Basic
    \/ Start
    \/ LoopEnd
    \/ ExperimentStep
    \/ PgdShow
    \/ PgdRun
    \/ PgdFail

Spec == Init /\ [][Next]_vars

(***************************************************************************)
(* The claims.                                                             *)
(***************************************************************************)
\* C1: a step of pgd changes no file but the one of the experiment it
\* processes, and that file becomes what was loaded from it with nothing
\* changed but 'PGD', which is the loaded list (empty when the key was
\* absent) followed by exactly one new record; every file keeps every
\* record it had, in place.
C1_AppendOnly ==
    [][cmd = "pgd" =>
        /\ DOMAIN files' = DOMAIN files
        /\ \A p \in DOMAIN files :
            /\ Len(PgdOf(files'[p])) >= Len(PgdOf(files[p]))
            /\ SubSeq(PgdOf(files'[p]), 1, Len(PgdOf(files[p])))
                  = PgdOf(files[p])
            /\ files'[p] # files[p] =>
                 /\ opts.run
                 /\ p = checkpoint_file'
                 /\ loads'[Len(loads')].file = p
                 /\ loads'[Len(loads')].checkpoint = files[p]
                 /\ saves'[Len(saves')].checkpoint = files'[p]
                 /\ DOMAIN files'[p] = DOMAIN files[p] \cup {"PGD"}
                 /\ \A key \in DOMAIN files[p] \ {"PGD"} :
                       files'[p][key] = files[p][key]
                 /\ Len(files'[p]["PGD"]) = Len(PgdOf(files[p])) + 1
        /\ saves' # saves =>
             files'[checkpoint_file'] # files[checkpoint_file']
    ]_vars

\* a file that held records of an earlier run has one more, whose epsilon
\* repeats an earlier record's
C1_Witness ==
    /\ cmd = "pgd"
    /\ Len(saves) > 0
    /\ LET p == saves[Len(saves)].file
           old == PgdOf(initial[p])
           new == PgdOf(files[p])
       IN  /\ Len(old) >= 1
           /\ Len(new) = Len(old) + 1
           /\ \E j \in 1..Len(old) : new[j].epsilon = new[Len(new)].epsilon

\* C2: the training loop is never invoked by basic with a negative
\* learning rate, momentum, weight decay or epsilon.
C2_NegativeRejected ==
    cmd = "basic" =>
        \A k \in 1..Len(trainCalls) :
            /\ ~(trainCalls[k].learning_rate[1] < 0)
            /\ ~(trainCalls[k].momentum[1] < 0)
            /\ ~(trainCalls[k].weight_decay[1] < 0)
            /\ ~(trainCalls[k].epsilon[1] < 0)

\* C3: when pgd has loaded a checkpoint without 'state_dict', the run has
\* failed with MissingKeyError and the file is as it was.
C3_MissingKeyError ==
    (/\ cmd = "pgd"
     /\ status # "running"
     /\ Len(loads) > 0
     /\ "state_dict" \notin DOMAIN loads[Len(loads)].checkpoint)
    => /\ status = "failed"
       /\ error = "MissingKeyError"
       /\ files = initial

\* C4: every training run experiment starts gets the log directory
\* '<dataset>-<model>-<epsilon>/<learning_rate>' and the checkpoint
\* '<directory>/checkpoint.pth' of its own grid configuration, and no two
\* runs get the same log directory or the same checkpoint.
C4_DirectoriesInjective ==
    cmd = "experiment" =>
        /\ Len(trainCalls) = (IF opts.run THEN Len(printed) ELSE 0)
        /\ \A k \in 1..Len(trainCalls) :
            LET c == trainCalls[k]
                t == printed[k].exp
            IN  /\ t = ExperimentGrid[printed[k].i + 1]
                /\ <<c.dataset, c.epsilon, c.learning_rate, c.model>> = t
                /\ c.log_dir = t[1] \o "-" \o t[4] \o "-" \o FloatStr(t[2])
                                    \o "/" \o FloatStr(t[3])
                /\ c.checkpoint = c.log_dir \o "/checkpoint.pth"
                /\ c.checkpoint \in DOMAIN files
                /\ \A j \in 1..(k - 1) :
                    /\ trainCalls[j].log_dir # c.log_dir
                    /\ trainCalls[j].checkpoint # c.checkpoint

\* the whole grid has been trained, from 'MNIST-small_cnn-0.001/0.1' to
\* 'CIFAR100-large_cnn-0.4/0.001'
C4_Witness ==
    /\ cmd = "experiment"
    /\ status = "done"
    /\ Len(trainCalls) = Len(ExperimentGrid)
    /\ trainCalls[1].log_dir = "MNIST-small_cnn-0.001/0.1"
    /\ trainCalls[1].checkpoint = "MNIST-small_cnn-0.001/0.1/checkpoint.pth"
    /\ trainCalls[Len(trainCalls)].log_dir = "CIFAR100-large_cnn-0.4/0.001"
    /\ \E k \in 1..Len(trainCalls) :
          trainCalls[k].log_dir = "CIFAR10-medium_cnn-0.03/0.01"

\* C5: in show mode pgd and experiment load and save no checkpoint, call
\* neither the attack nor the training loop, and leave every file as it was.
C5_ShowOnlyLists ==
    (cmd \in {"experiment", "pgd"} /\ ~opts.run) =>
        /\ loads = <<>>
        /\ saves = <<>>
        /\ attackCalls = <<>>
        /\ trainCalls = <<>>
        /\ files = initial

\* pgd has listed every experiment in show mode
C5_Witness ==
    /\ cmd = "pgd"
    /\ ~opts.run
    /\ opts.index = None
    /\ status = "done"
    /\ Len(printed) = NumExperiments

\* C6: no step of pgd follows a failure, and the step that fails leaves
\* every file as it was before the failing experiment started, writes
\* nothing, and leaves the records saved before it in their files.
C6_AbortLeavesFiles ==
    [][cmd = "pgd" =>
        /\ status # "failed"
        /\ status' = "failed" =>
             /\ files' = files
             /\ saves' = saves
             /\ error' \in {"FileNotFoundError", "KeyError", "RuntimeError",
                            "AttackError"}
             /\ \A k \in 1..Len(saves) :
                  LET list == saves[k].checkpoint["PGD"]
                  IN  \E j \in 1..Len(PgdOf(files'[saves[k].file])) :
                         files'[saves[k].file]["PGD"][j] = list[Len(list)]
    ]_vars

\* load_state_dict failed after earlier experiments had saved records
C6_Witness ==
    /\ cmd = "pgd"
    /\ status = "failed"
    /\ error = "RuntimeError"
    /\ Len(saves) >= 1
    /\ Len(printed) = Len(saves) + 1

SevenFields ==
    {"seed", "subset", "restarts", "epsilon", "robustness", "fooling_rate",
     "sorted_errors"}

\* C7: the record of every save has exactly the seven fields; its epsilon is
\* the test epsilon of the experiment, as passed to the attack; its seed,
\* subset and restarts are those passed to the robustness computation
\* (None, None, 1); its three statistics are what that computation returned.
C7_RecordFields ==
    cmd = "pgd" =>
        \A k \in 1..Len(saves) :
            LET list == saves[k].checkpoint["PGD"]
                r == list[Len(list)]
                a == attackCalls[k]
                e == printed[k].exp
            IN  /\ DOMAIN r = SevenFields
                /\ a.i = saves[k].i
                /\ printed[k].i = saves[k].i
                /\ r.epsilon = e[5]
                /\ a.epsilon = e[5]
                /\ r.seed = a.subset_seed /\ r.seed = None
                /\ r.subset = a.subset /\ r.subset = None
                /\ r.restarts = a.restarts /\ r.restarts = 1
                /\ r.robustness = a.results.robustness
                /\ r.fooling_rate = a.results.fooling_rate
                /\ r.sorted_errors = a.results.sorted_errors
                /\ Cardinality({r.robustness, r.fooling_rate,
                                r.sorted_errors}) = 3

\* a record was saved for an experiment whose test epsilon is not the
\* epsilon its checkpoint was trained with
C7_Witness ==
    /\ cmd = "pgd"
    /\ Len(saves) >= 1
    /\ printed[1].exp[2] # printed[1].exp[5]
    /\ PgdOf(files[saves[1].file]) # <<>>

Range(seq) == {seq[k] : k \in 1..Len(seq)}

Pos(seq, x) == CHOOSE k \in 1..Len(seq) : seq[k] = x

PgdLists ==
    <<PgdDatasets, PgdEpsilons, PgdModelSize, PgdLearningRates,
      PgdTestEpsilons>>

\* a comes before b in the order of the product
Before(a, b) ==
    \E m \in 1..5 :
        /\ \A n \in 1..(m - 1) : a[n] = b[n]
        /\ Pos(PgdLists[m], a[m]) < Pos(PgdLists[m], b[m])

\* the combinations the pgd list is claimed to hold
C8_Expected ==
    {t \in Range(PgdDatasets) \X Range(PgdEpsilons) \X Range(PgdModelSize)
             \X Range(PgdLearningRates) \X Range(PgdTestEpsilons) :
        \/ t[1] = "CIFAR10" /\ t[2] = F(1, 100) /\ t[5] = F(2, 255)
        \/ t[1] = "MNIST" /\ t[2] # F(1, 100) /\ t[5] # F(2, 255)}

\* C8: the experiment pgd has just listed is one of the claimed
\* combinations and its number is the count of claimed combinations before
\* it in product order (0..71 MNIST, 72..79 CIFAR10); the numbers listed
\* increase; with an index only that number is listed, without one the
\* numbers are 0, 1, 2, ...; and a run that ends without a failure has
\* listed 80 experiments without an index, one with an index below 80 and
\* none with a larger index, raising nothing.
C8_ExactlyIndexed ==
    cmd = "pgd" =>
        /\ Cardinality(C8_Expected) = 80
        /\ \A k \in 1..Len(printed) :
            /\ k > 1 => printed[k - 1].i < printed[k].i
            /\ opts.index = None => printed[k].i = k - 1
            /\ opts.index # None => (k = 1 /\ printed[k].i = opts.index[1])
            /\ (printed[k].i < 72) = (printed[k].exp[1] = "MNIST")
        /\ Len(printed) > 0 =>
            LET last == printed[Len(printed)]
            IN  /\ last.exp \in C8_Expected
                /\ Cardinality({t \in C8_Expected : Before(t, last.exp)})
                      = last.i
        /\ status = "usage_error" => opts.index[1] < 0
        /\ status = "done" =>
            /\ error = ""
            /\ Len(printed) =
                 (IF opts.index = None THEN 80
                  ELSE IF opts.index[1] < 80 THEN 1 ELSE 0)

\* a run without an index has listed all 80 experiments, the last a
\* CIFAR10 one
C8_Witness ==
    /\ cmd = "pgd"
    /\ opts.index = None
    /\ status = "done"
    /\ Len(printed) = 80
    /\ printed[80].i = 79
    /\ printed[80].exp = <<"CIFAR10", F(1, 100), "medium", F(1, 1000),
                           F(2, 255)>>

EpsilonsOf(list) == [k \in 1..Len(list) |-> list[k].epsilon]

\* C9: after a complete run of every experiment on checkpoints without
\* 'PGD': two experiments saved the same file exactly when they agree on
\* (dataset, epsilon, model, learning rate); the experiments of one file are
\* consecutive and each loads what the previous one saved; every MNIST file
\* holds the epsilons 0.1, 0.2, 0.3 in that order and every CIFAR10 file
\* 2/255; there are 32 files and 80 records.
C9_FullRun ==
    (/\ cmd = "pgd"
     /\ opts.run
     /\ opts.index = None
     /\ status = "done"
     /\ session = 1)
    => /\ Len(saves) = 80
       /\ Len(loads) = 80
       /\ Cardinality(DOMAIN files) = 32
       /\ Cardinality({saves[k].file : k \in 1..80}) = 32
       /\ \A j, k \in 1..80 :
            /\ (saves[j].file = saves[k].file)
                  = (SubSeq(printed[j].exp, 1, 4) = SubSeq(printed[k].exp, 1, 4))
            /\ (j < k /\ saves[j].file = saves[k].file) =>
                  \A m \in j..k : saves[m].file = saves[j].file
       /\ \A k \in 2..80 :
            saves[k].file = saves[k - 1].file =>
               loads[k].checkpoint = saves[k - 1].checkpoint
       /\ \A k \in 1..80 :
            /\ loads[k].file = saves[k].file
            /\ EpsilonsOf(files[saves[k].file]["PGD"]) =
                 (IF printed[k].exp[1] = "MNIST"
                  THEN <<F(1, 10), F(2, 10), F(3, 10)>>
                  ELSE <<F(2, 255)>>)
       /\ Cardinality(UNION {{p} \X (1..Len(PgdOf(files[p]))) :
                                 p \in DOMAIN files}) = 80

\* the complete run on fresh checkpoints has ended
C9_Witness ==
    /\ cmd = "pgd"
    /\ opts.run
    /\ opts.index = None
    /\ status = "done"
    /\ session = 1
    /\ Len(saves) = NumExperiments
    /\ \A p \in DOMAIN initial : "PGD" \notin DOMAIN initial[p]

\* the checkpoint paths experiment passes to the training loop
ExperimentCheckpoints ==
    {ExperimentKwargs(ExperimentGrid[n]).checkpoint :
        n \in 1..Len(ExperimentGrid)}

\* C10: for a non-zero learning rate the path pgd uses is the checkpoint
\* path experiment passes for (dataset, '<model>_cnn', epsilon, learning
\* rate), which is in experiment's grid; for learning rate 0 it is
\* 'dm_torch/<lowercased dataset>-<model>-<epsilon>.pth', no path of
\* experiment's.
C10_SamePath ==
    (cmd = "pgd" /\ Len(printed) > 0) =>
        LET e == printed[Len(printed)].exp
            t == <<e[1], e[2], e[4], e[3] \o "_cnn">>
        IN  IF e[4] # F(0, 1)
            THEN /\ t \in Range(ExperimentGrid)
                 /\ checkpoint_file = ExperimentKwargs(t).checkpoint
                 /\ checkpoint_file \in ExperimentCheckpoints
            ELSE /\ checkpoint_file = "dm_torch/" \o Lower(e[1]) \o "-"
                        \o e[3] \o "-" \o FloatStr(e[2]) \o ".pth"
                 /\ checkpoint_file \notin ExperimentCheckpoints

\* pgd went from the three dm_torch experiments to the first trained file
C10_Witness ==
    /\ cmd = "pgd"
    /\ Len(loads) >= 4
    /\ loads[1].file = "dm_torch/mnist-small-0.03.pth"
    /\ checkpoint_file = "MNIST-small_cnn-0.03/0.1/checkpoint.pth"

====
